---- MODULE Spec2Model ----
(***************************************************************************)
(* A model of darwin, the database schema evolution library                *)
(* (src/mysql_dialect.go, which holds the MySQL dialect followed by the    *)
(* engine: Validate, planMigration, Migrate).                              *)
(*                                                                         *)
(* Versions are float64 in the source.  The model uses integers for them:  *)
(* the code only compares versions (<, >, ==, map lookup), and on numbers  *)
(* these agree with the integer order.  NaN, which compares unequal to     *)
(* itself, is outside the version domain of the model.                     *)
(***************************************************************************)
EXTENDS Integers, Sequences, FiniteSets, TLC

\* Longest migration slice a caller supplies.
MaxLen == 3

\* Most lines of a text given to ParseMigrations.
MaxLines == 2

\* The goroutines that call into the library.
Callers == {1, 2}

\* Migration (struct): Version, Description, Script.
Mig(v, d, s) == [Version |-> v, Description |-> d, Script |-> s]

\* The migrations callers draw their slices from: a negative version, the
\* boundary version 0, and two versions that exist with two script texts.
MigrationUniverse ==
    { Mig(-1, "neg", "a"),
      Mig(0, "zero", "a"),
      Mig(1, "one", "a"), Mig(1, "one", "b"),
      Mig(2, "two", "a"), Mig(2, "two", "b") }

\* Migration.Checksum: the md5 of the script, in hex.  md5 is modelled as an
\* injective function of the script text.
Checksum(m) == "md5:" \o m.Script

\* A slip: the record gets the script where its checksum belongs.
RecordOfScript(m) ==
    [Version |-> m.Version, Description |-> m.Description, Checksum |-> m.Script]

\* MigrationRecord built by Migrate for a migration (AppliedAt and
\* ExecutionTime are not read by the engine and are left out).
RecordOf(m) ==
    [Version |-> m.Version, Description |-> m.Description, Checksum |-> Checksum(m)]

\* ---------------------------------------------------------------- sequences

Range(s) == { s[i] : i \in 1..Len(s) }

VersionsOf(s) == { s[i].Version : i \in 1..Len(s) }

\* The permutations of a sequence.
Perms(s) ==
    { [i \in 1..Len(s) |-> s[f[i]]] :
        f \in { g \in [1..Len(s) -> 1..Len(s)] :
                  \A i, j \in 1..Len(s) : i /= j => g[i] /= g[j] } }

\* Ascending by version, equal versions allowed / not allowed.
IsAscending(s) == \A i \in 1..Len(s) - 1 : ~(s[i + 1].Version < s[i].Version)

IsStrictlyAscending(s) == \A i \in 1..Len(s) - 1 : s[i].Version < s[i + 1].Version

\* Largest element of a non-empty set of integers.
Max(S) == CHOOSE x \in S : \A y \in S : y <= x

\* ------------------------------------------------------------------ errors

\* An error value: its Go type (or "nil") and, for the four structural
\* errors, its Version field (0 otherwise).
Err(kind, v) == [kind |-> kind, Version |-> v]

Nil == Err("nil", 0)

\* The errors the four driver operations can return.
CreateFailed == Err("driver: Create failed", 0)
AllFailed == Err("driver: All failed", 0)
ExecFailed == Err("driver: Exec failed", 0)
InsertFailed == Err("driver: Insert failed", 0)

DriverErrors == {CreateFailed, AllFailed, ExecFailed, InsertFailed}

StructuralKinds ==
    { "IllegalMigrationVersionError", "DuplicateMigrationVersionError",
      "RemovedMigrationError", "InvalidChecksumError" }

\* ------------------------------------------------------- sorting (sort.Sort)

\* byMigrationVersion.Less
byMigrationVersionLess(a, b) == a.Version < b.Version

\* sort.Sort(byMigrationVersion(s)): a permutation of s in which no element is
\* Less than its predecessor.  sort.Sort is not stable, so with equal versions
\* every such permutation is a possible result.
sortByMigrationVersion(s) ==
    { t \in Perms(s) :
        \A i \in 1..Len(t) - 1 : ~byMigrationVersionLess(t[i + 1], t[i]) }

\* byMigrationRecordVersion.Less
byMigrationRecordVersionLess(a, b) == a.Version < b.Version

\* A slip: sort.Reverse left out, so the records come out ascending.
sortRecordsAscending(records) ==
    { t \in Perms(records) :
        \A i \in 1..Len(t) - 1 : ~byMigrationRecordVersionLess(t[i + 1], t[i]) }

\* sort.Sort(sort.Reverse(byMigrationRecordVersion(records))): descending.
sortRecordsDescending(records) ==
    { t \in Perms(records) :
        \A i \in 1..Len(t) - 1 : ~byMigrationRecordVersionLess(t[i], t[i + 1]) }

\* ---------------------------------------------------- the checks of Validate

\* A (float64, bool) result.
Found(v) == [Version |-> v, found |-> TRUE]

NotFound == [Version |-> 0, found |-> FALSE]

\* Smallest element of a non-empty set of integers.
Min(S) == CHOOSE x \in S : \A y \in S : x <= y

\* for _, migration := range migrations: the first one with a version below 0.
isInvalidVersion(migrations) ==
    LET bad == { i \in 1..Len(migrations) : migrations[i].Version < 0 }
    IN  IF bad = {} THEN NotFound ELSE Found(migrations[Min(bad)].Version)

\* A slip: the first migration never gets into the map `unique`.
isDuplicatedSkipFirst(migrations) ==
    LET dup == { i \in 1..Len(migrations) :
                   \E j \in 2..(i - 1) : migrations[j].Version = migrations[i].Version }
    IN  IF dup = {} THEN NotFound ELSE Found(migrations[Min(dup)].Version)

\* The first migration whose version an earlier migration already put in the
\* map `unique`.
isDuplicated(migrations) ==
    LET dup == { i \in 1..Len(migrations) :
                   \E j \in 1..(i - 1) : migrations[j].Version = migrations[i].Version }
    IN  IF dup = {} THEN NotFound ELSE Found(migrations[Min(dup)].Version)

\* A slip: only the records below the highest applied version are looked up.
wasRemovedMigrationBelowHighest(applied, migrations) ==
    LET gone == { i \in 1..Len(applied) :
                    /\ applied[i].Version \notin VersionsOf(migrations)
                    /\ applied[i].Version < Max(VersionsOf(applied)) }
    IN  IF gone = {} THEN NotFound ELSE Found(applied[Min(gone)].Version)

\* The first applied record, in the order All returned them, whose version is
\* no key of the map built from the migrations.
wasRemovedMigration(applied, migrations) ==
    LET gone == { i \in 1..Len(applied) : applied[i].Version \notin VersionsOf(migrations) }
    IN  IF gone = {} THEN NotFound ELSE Found(applied[Min(gone)].Version)

\* A slip: `==` for `!=` in the comparison of the checksums.
isInvalidChecksumMigrationEq(applied, migrations) ==
    LET last(v) == Max({ i \in 1..Len(applied) : applied[i].Version = v })
        same == { i \in 1..Len(migrations) :
                    /\ migrations[i].Version \in VersionsOf(applied)
                    /\ applied[last(migrations[i].Version)].Checksum
                           = Checksum(migrations[i]) }
    IN  IF same = {} THEN NotFound ELSE Found(migrations[Min(same)].Version)

\* versionMap[version] is the last applied record of that version; the first
\* migration, in slice order, whose record has another checksum is reported.
isInvalidChecksumMigration(applied, migrations) ==
    LET last(v) == Max({ i \in 1..Len(applied) : applied[i].Version = v })
        drift == { i \in 1..Len(migrations) :
                     /\ migrations[i].Version \in VersionsOf(applied)
                     /\ applied[last(migrations[i].Version)].Checksum
                            /= Checksum(migrations[i]) }
    IN  IF drift = {} THEN NotFound ELSE Found(migrations[Min(drift)].Version)

\* ------------------------------------------------------------------ driver

\* What d.All() can return: an error, or every record of the table in an
\* order the engine does not rely on.
AllResults(table) ==
    { [err |-> AllFailed, records |-> << >>] }
        \cup { [err |-> Nil, records |-> r] : r \in Perms(table) }

\* d.Insert(record): the db_version table is UNIQUE (version), so an insert of
\* a version the table holds fails; any insert may fail.
InsertResults(tbl, record) ==
    { [err |-> InsertFailed, table |-> tbl] }
        \cup IF record.Version \in VersionsOf(tbl) THEN {}
             ELSE { [err |-> Nil, table |-> Append(tbl, record)] }

\* ---------------------------------------------------------------- Validate

\* A slip: the duplicate check comes before the version check, and the
\* checksum check before the removal check.
validateChecksSwapped(sorted, all) ==
    IF isDuplicated(sorted).found
    THEN Err("DuplicateMigrationVersionError", isDuplicated(sorted).Version)
    ELSE IF isInvalidVersion(sorted).found
    THEN Err("IllegalMigrationVersionError", isInvalidVersion(sorted).Version)
    ELSE IF all.err /= Nil
    THEN all.err
    ELSE IF isInvalidChecksumMigration(all.records, sorted).found
    THEN Err("InvalidChecksumError",
             isInvalidChecksumMigration(all.records, sorted).Version)
    ELSE IF wasRemovedMigration(all.records, sorted).found
    THEN Err("RemovedMigrationError", wasRemovedMigration(all.records, sorted).Version)
    ELSE Nil

\* Validate after its sort, given what d.All() returns: the first failing
\* check decides the error.
validateChecks(sorted, all) ==
    IF isInvalidVersion(sorted).found
    THEN Err("IllegalMigrationVersionError", isInvalidVersion(sorted).Version)
    ELSE IF isDuplicated(sorted).found
    THEN Err("DuplicateMigrationVersionError", isDuplicated(sorted).Version)
    ELSE IF all.err /= Nil
    THEN all.err
    ELSE IF wasRemovedMigration(all.records, sorted).found
    THEN Err("RemovedMigrationError", wasRemovedMigration(all.records, sorted).Version)
    ELSE IF isInvalidChecksumMigration(all.records, sorted).found
    THEN Err("InvalidChecksumError",
             isInvalidChecksumMigration(all.records, sorted).Version)
    ELSE Nil

\* The driver operations Validate calls: d.All(), unless one of the two checks
\* before it has already failed.
validateDriverCalls(sorted) ==
    IF isInvalidVersion(sorted).found \/ isDuplicated(sorted).found THEN {} ELSE {"All"}

\* A slip: Validate sorts a copy, and the caller's slice stays as it was.
ValidateSortsCopy(migs, tbl) ==
    { [migrations |-> migs,
       err |-> validateChecks(sorted, all),
       driverCalls |-> validateDriverCalls(sorted)] :
          sorted \in sortByMigrationVersion(migs), all \in AllResults(tbl) }

\* Validate(d, migrations): the outcomes it can have on a table.  The slice is
\* sorted in place; driverCalls are the driver operations it called.
Validate(migs, tbl) ==
    { [migrations |-> sorted,
       err |-> validateChecks(sorted, all),
       driverCalls |-> validateDriverCalls(sorted)] :
          sorted \in sortByMigrationVersion(migs), all \in AllResults(tbl) }

\* ------------------------------------------------------------ planMigration

\* A slip: `>=` for `>`.
aboveLastOrEqual(migs, last) == SelectSeq(migs, LAMBDA m : m.Version >= last.Version)

\* The migrations of the slice, in slice order, above the last record.
aboveLast(migs, last) == SelectSeq(migs, LAMBDA m : m.Version > last.Version)

\* A slip: `len(records) >= 0` for `len(records) == 0`, so every migration is
\* planned whatever the records are.
planMigrationAll(migs, tbl) ==
    { IF all.err /= Nil
      THEN [planned |-> << >>, err |-> all.err]
      ELSE [planned |-> migs, err |-> Nil] : all \in AllResults(tbl) }

\* planMigration(d, migrations): the outcomes it can have on a table.
planMigration(migs, tbl) ==
    UNION { IF all.err /= Nil
            THEN { [planned |-> << >>, err |-> all.err] }
            ELSE IF Len(all.records) = 0
            THEN { [planned |-> migs, err |-> Nil] }
            ELSE { [planned |-> pl, err |-> Nil] :
                     pl \in UNION { sortByMigrationVersion(aboveLast(migs, desc[1])) :
                                      desc \in sortRecordsDescending(all.records) } } :
            all \in AllResults(tbl) }

\* -------------------------------------------------------------------- Info

\* What getStatus gives when it indexes an empty slice: a run-time panic
\* (index out of range), which unwinds the caller's goroutine.
Panic == "panic"

\* A slip: the test for Pending is `>=`.
getStatusPendingOrEqual(inDatabase, migration) ==
    IF Len(inDatabase) = 0 THEN Panic
    ELSE IF migration.Version >= inDatabase[1].Version THEN "Pending"
    ELSE IF \E k \in 1..Len(inDatabase) : inDatabase[k].Version = migration.Version
    THEN "Applied"
    ELSE "Ignored"

\* getStatus(inDatabase, migration): `last := inDatabase[0]` comes first,
\* whatever the length of inDatabase.
getStatus(inDatabase, migration) ==
    IF Len(inDatabase) = 0 THEN Panic
    ELSE IF migration.Version > inDatabase[1].Version THEN "Pending"
    ELSE IF \E k \in 1..Len(inDatabase) : inDatabase[k].Version = migration.Version
    THEN "Applied"
    ELSE "Ignored"

\* MigrationInfo (struct): Status, Error, Migration.
MigrationInfo(status, migration) ==
    [Status |-> status, Error |-> Nil, Migration |-> migration]

\* Info(d, migrations): the outcomes it can have on a table.  getStatus is
\* called once per migration, so on no migrations it is not called.
Info(migs, tbl) ==
    UNION { IF all.err /= Nil
            THEN { [info |-> << >>, err |-> all.err, panicked |-> FALSE] }
            ELSE { IF \E k \in 1..Len(migs) : getStatus(desc, migs[k]) = Panic
                   THEN [info |-> << >>, err |-> Nil, panicked |-> TRUE]
                   ELSE [info |-> [k \in 1..Len(migs) |->
                                     MigrationInfo(getStatus(desc, migs[k]), migs[k])],
                         err |-> Nil, panicked |-> FALSE] :
                     desc \in sortRecordsDescending(all.records) } :
            all \in AllResults(tbl) }

\* ---------------------------------------------------------- ParseMigrations

\* Texts and lines are strings; all their characters are ASCII, so a byte
\* index of the code is a character index here (from 1, not from 0).
Char(s, i) == SubSeq(s, i, i)

UpperCase == "ABCDEFGHIJKLMNOPQRSTUVWXYZ"

LowerCase == "abcdefghijklmnopqrstuvwxyz"

Digits == "0123456789"

Whitespace == {" ", "\t", "\n", "\r"}

ToLowerChar(ch) ==
    IF \E i \in 1..Len(UpperCase) : Char(UpperCase, i) = ch
    THEN Char(LowerCase, CHOOSE i \in 1..Len(UpperCase) : Char(UpperCase, i) = ch)
    ELSE ch

RECURSIVE ToLower(_)
\* strings.ToLower(s)
ToLower(s) ==
    IF s = "" THEN "" ELSE ToLowerChar(Char(s, 1)) \o ToLower(SubSeq(s, 2, Len(s)))

\* strings.Replace(s, " ", "", 1): s without its first space.
RemoveFirstSpace(s) ==
    LET sp == { i \in 1..Len(s) : Char(s, i) = " " }
    IN  IF sp = {} THEN s
        ELSE SubSeq(s, 1, Min(sp) - 1) \o SubSeq(s, Min(sp) + 1, Len(s))

\* strings.HasPrefix(s, prefix)
HasPrefix(s, prefix) == Len(s) >= Len(prefix) /\ SubSeq(s, 1, Len(prefix)) = prefix

\* strings.TrimSpace(s)
TrimSpace(s) ==
    LET ink == { i \in 1..Len(s) : Char(s, i) \notin Whitespace }
    IN  IF ink = {} THEN "" ELSE SubSeq(s, Min(ink), Max(ink))

\* The form of a line the two `case` conditions look at.
Normalized(v) == RemoveFirstSpace(ToLower(v))

\* v[n:] of the code; it panics when n > len(v).
SliceFrom(v, n) == SubSeq(v, n + 1, Len(v))

RECURSIVE Decimal(_, _)
\* The number n / 10^e, as the pair with the least e: the float64 values that
\* ParseFloat yields for decimal literals, which are equal exactly when these
\* pairs are.
Decimal(n, e) ==
    IF e > 0 /\ n % 10 = 0 THEN Decimal(n \div 10, e - 1) ELSE [n |-> n, e |-> e]

RECURSIVE NatOf(_)
\* The number a string of digits writes.
NatOf(s) ==
    IF s = "" THEN 0
    ELSE 10 * NatOf(SubSeq(s, 1, Len(s) - 1))
            + (CHOOSE d \in 0..9 : Char(Digits, d + 1) = Char(s, Len(s)))

\* strconv.ParseFloat(s, 64) on the literals made of digits and one optional
\* point ("12", "1.5", ".5", "1."); an empty string, a lone point and any
\* other character are an error.  (Signs, exponents, hexadecimal and the
\* names inf and nan, which ParseFloat also reads, are in none of the texts.)
ParseFloat(s) ==
    LET dots == { i \in 1..Len(s) : Char(s, i) = "." }
        digs == { i \in 1..Len(s) : \E d \in 1..Len(Digits) : Char(Digits, d) = Char(s, i) }
    IN  IF Cardinality(dots) > 1 \/ digs = {} \/ dots \cup digs /= 1..Len(s)
        THEN [ok |-> FALSE, value |-> Decimal(0, 0)]
        ELSE IF dots = {}
        THEN [ok |-> TRUE, value |-> Decimal(NatOf(s), 0)]
        ELSE [ok |-> TRUE,
              value |-> Decimal(NatOf(SubSeq(s, 1, Min(dots) - 1)
                                        \o SubSeq(s, Min(dots) + 1, Len(s))),
                                Len(s) - Min(dots))]

\* bufio.ScanLines drops one carriage return at the end of a line.
DropCR(line) ==
    IF line /= "" /\ Char(line, Len(line)) = "\r"
    THEN SubSeq(line, 1, Len(line) - 1)
    ELSE line

RECURSIVE ScanLines(_)
\* The lines scanner.Scan() yields: the text split at its newlines, a last
\* line without a newline included when it is not empty.
ScanLines(s) ==
    LET nl == { i \in 1..Len(s) : Char(s, i) = "\n" }
    IN  IF s = "" THEN << >>
        ELSE IF nl = {} THEN << DropCR(s) >>
        ELSE << DropCR(SubSeq(s, 1, Min(nl) - 1)) >>
                 \o ScanLines(SubSeq(s, Min(nl) + 1, Len(s)))

\* Migration{}: the zero value.
ZeroMigration == Mig(Decimal(0, 0), "", "")

\* The variables of ParseMigrations before its loop.
ParseStart ==
    [migrations |-> << >>, m |-> ZeroMigration, script |-> "", outcome |-> "ok"]

\* One turn of the loop, on line v: the `switch`.  After a return (outcome
\* "nil") or a panic nothing more happens.
parseLine(st, v) ==
    IF st.outcome /= "ok" THEN st
    ELSE IF HasPrefix(Normalized(v), "--version:")
    THEN IF Len(v) < 11 THEN [st EXCEPT !.outcome = "panic"]
         ELSE IF ~ParseFloat(TrimSpace(SliceFrom(v, 11))).ok
         THEN [st EXCEPT !.outcome = "nil"]
         ELSE [st EXCEPT
                 !.migrations = Append(@, [st.m EXCEPT !.Script = st.script]),
                 !.m = [ZeroMigration EXCEPT
                          !.Version = ParseFloat(TrimSpace(SliceFrom(v, 11))).value],
                 !.script = ""]
    ELSE IF HasPrefix(Normalized(v), "--description:")
    THEN IF Len(v) < 15 THEN [st EXCEPT !.outcome = "panic"]
         ELSE [st EXCEPT !.m.Description = TrimSpace(SliceFrom(v, 15))]
    ELSE [st EXCEPT !.script = @ \o v \o "\n"]

RECURSIVE parseLoop(_, _)
\* for scanner.Scan() { ... }
parseLoop(st, lines) ==
    IF lines = << >> THEN st ELSE parseLoop(parseLine(st, Head(lines)), Tail(lines))

\* ParseMigrations(s): the migrations it returns (none when it returns nil),
\* and whether it returned ("ok"), returned nil ("nil") or panicked.
ParseMigrations(s) ==
    LET st == parseLoop(ParseStart, ScanLines(s))
    IN  IF st.outcome /= "ok" THEN [migrations |-> << >>, outcome |-> st.outcome]
        ELSE [migrations |-> Tail(Append(st.migrations,
                                         [st.m EXCEPT !.Script = st.script])),
              outcome |-> "ok"]

\* ------------------------------------------------------------------- state

VARIABLES
    mutex,   \* the global mutex: TRUE when locked
    table,   \* the rows of db_version, in insertion order
    call     \* per caller: its current (or last) call into the library

vars == <<mutex, table, call>>

\* A caller that has made no call yet.
NoCall ==
    [ pc |-> "idle",           \* where the call is
      op |-> "none",           \* "Migrate", "Validate", "Info" or "ParseMigrations"
      migrations |-> << >>,    \* the caller's slice
      planned |-> << >>,       \* Migrate's plan
      i |-> 0,                 \* index into planned of the loop of Migrate
      err |-> Nil,             \* what the call returned (at pc = "done")
      arg |-> << >>,           \* Info: the slice it was called with
      info |-> << >>,          \* Info: the []MigrationInfo it returned
      text |-> "",             \* ParseMigrations: the text it was called with
      \* History of the call, kept to state properties; the code reads none.
      execLog |-> << >>,       \* the migrations this call passed to d.Exec
      insertLog |-> << >>,     \* the records this call passed to d.Insert
      fault |-> Nil,           \* the error of the driver operation that failed
      driverCalls |-> {},      \* the driver operations the call has called
      tableAtStart |-> << >>,  \* the table when the call started (Migrate: when
                               \* it got the mutex)
      shuffled |-> FALSE,      \* the slice was not in ascending order then
      again |-> FALSE,         \* the call repeats the caller's previous Migrate
      prevErr |-> Nil,         \* with `again`: what that Migrate returned
      prevAt |-> {},           \* with `again`: the version it failed at, if any
      fresh |-> FALSE,         \* Info: the caller's previous call was a Migrate
                               \* of this slice that started on an empty table
                               \* and returned success
      resorted |-> FALSE ]     \* Info: the caller's previous call was a Validate,
                               \* or a Migrate that got to its Validate, and
                               \* the slice was not in ascending order before

Init ==
    /\ mutex = FALSE
    /\ table = << >>
    /\ call = [p \in Callers |-> NoCall]

\* s without its k-th element.
RemoveAt(s, k) == [j \in 1..(Len(s) - 1) |-> IF j < k THEN s[j] ELSE s[j + 1]]

\* The slices a caller can make from slice s by adding one migration of the
\* universe U at the end or dropping one migration.  From the empty slice
\* every slice over U of length at most MaxLen is built this way, in every
\* order.
NextSlices(s, U) ==
    (IF Len(s) < MaxLen THEN { Append(s, m) : m \in U } ELSE {})
        \cup { RemoveAt(s, k) : k \in 1..Len(s) }

\* The driver error in e, if e is one.
FaultOf(e) == IF e \in DriverErrors THEN e ELSE Nil

\* ----------------------------------------------------------------- Migrate

\* A slip: Validate moved behind the loop.
MigrateOrderValidateLast == <<"create", "plan", "loop", "validate">>

\* The statements of Migrate in the order the code runs them; after the last
\* comes `return nil`.
MigrateOrder == <<"create", "validate", "plan", "loop">>

\* The statement after statement ph.
After(ph) ==
    LET k == CHOOSE j \in 1..Len(MigrateOrder) : MigrateOrder[j] = ph
    IN  IF k = Len(MigrateOrder) THEN "return" ELSE MigrateOrder[k + 1]

InMigrate == Range(MigrateOrder) \cup {"insert"}

\* The call c returns e.
Returned(c, e) == [c EXCEPT !.pc = "done", !.err = e]

\* The call c has statement ph behind it without an error.
Passed(c, ph) ==
    IF After(ph) = "return" THEN Returned(c, Nil) ELSE [c EXCEPT !.pc = After(ph)]

\* A slip: no `defer`, and mutex.Unlock() only before the final `return nil`.
MigrateGoesUnlockOnSuccess(p, c) ==
    /\ call' = [call EXCEPT ![p] = c]
    /\ mutex' = (c.pc /= "done" \/ c.err /= Nil)

\* Caller p's call becomes c; the deferred mutex.Unlock() runs when it returns.
MigrateGoes(p, c) ==
    /\ call' = [call EXCEPT ![p] = c]
    /\ mutex' = (c.pc /= "done")

\* New(driver, migrations): a caller, between two calls, makes a Darwin value
\* with another slice.
New(p, ms) ==
    /\ call[p].pc \in {"idle", "done"}
    /\ call' = [call EXCEPT ![p] = [NoCall EXCEPT !.migrations = ms]]
    /\ UNCHANGED <<mutex, table>>

\* Darwin.Migrate: Migrate(d.driver, d.migrations) is entered.  When the
\* caller's previous call was a Migrate on the same Darwin value, `again`
\* records it, with what that call returned and where it failed.
MigrateCall(p) ==
    /\ call[p].pc \in {"idle", "done"}
    /\ call' = [call EXCEPT ![p] =
                  [NoCall EXCEPT
                     !.pc = "lock", !.op = "Migrate",
                     !.migrations = call[p].migrations,
                     !.again = (call[p].pc = "done" /\ call[p].op = "Migrate"),
                     !.prevErr = IF call[p].op = "Migrate" THEN call[p].err ELSE Nil,
                     !.prevAt = IF /\ call[p].op = "Migrate"
                                   /\ call[p].err \in {ExecFailed, InsertFailed}
                                THEN {call[p].planned[call[p].i].Version}
                                ELSE {}]]
    /\ UNCHANGED <<mutex, table>>

\* A slip: no mutex.Lock(), so Migrate does not wait.
MigrateLockFree(p) ==
    /\ call[p].pc = "lock"
    /\ mutex' = TRUE
    /\ call' = [call EXCEPT ![p].pc = MigrateOrder[1],
                            ![p].tableAtStart = table,
                            ![p].shuffled = ~IsAscending(call[p].migrations)]
    /\ UNCHANGED table

\* mutex.Lock(); defer mutex.Unlock()
MigrateLock(p) ==
    /\ call[p].pc = "lock"
    /\ mutex = FALSE
    /\ mutex' = TRUE
    /\ call' = [call EXCEPT ![p].pc = MigrateOrder[1],
                            ![p].tableAtStart = table,
                            ![p].shuffled = ~IsAscending(call[p].migrations)]
    /\ UNCHANGED table

\* err := d.Create(); return err if it failed.
MigrateCreate(p) ==
    /\ call[p].pc = "create"
    /\ \E e \in {Nil, CreateFailed} :
         LET c == [call[p] EXCEPT !.fault = e, !.driverCalls = @ \cup {"Create"}]
         IN  MigrateGoes(p, IF e /= Nil THEN Returned(c, e) ELSE Passed(c, "create"))
    /\ UNCHANGED table

\* A slip: Migrate hands Validate a copy of the slice.
MigrateValidateOnCopy(p) ==
    /\ call[p].pc = "validate"
    /\ \E out \in Validate(call[p].migrations, table) :
         LET c == [call[p] EXCEPT !.fault = FaultOf(out.err),
                                  !.driverCalls = @ \cup out.driverCalls]
         IN  MigrateGoes(p, IF out.err /= Nil THEN Returned(c, out.err)
                            ELSE Passed(c, "validate"))
    /\ UNCHANGED table

\* err = Validate(d, migrations); return err if it failed.
MigrateValidate(p) ==
    /\ call[p].pc = "validate"
    /\ \E out \in Validate(call[p].migrations, table) :
         LET c == [call[p] EXCEPT !.migrations = out.migrations,
                                  !.fault = FaultOf(out.err),
                                  !.driverCalls = @ \cup out.driverCalls]
         IN  MigrateGoes(p, IF out.err /= Nil THEN Returned(c, out.err)
                            ELSE Passed(c, "validate"))
    /\ UNCHANGED table

\* planned, err := planMigration(d, migrations); return err if it failed.
MigratePlan(p) ==
    /\ call[p].pc = "plan"
    /\ \E out \in planMigration(call[p].migrations, table) :
         LET c == [call[p] EXCEPT !.planned = out.planned, !.i = 1,
                                  !.fault = FaultOf(out.err),
                                  !.driverCalls = @ \cup {"All"}]
         IN  MigrateGoes(p, IF out.err /= Nil THEN Returned(c, out.err)
                            ELSE Passed(c, "plan"))
    /\ UNCHANGED table

\* A slip: `continue` for `return err` when Exec fails, so the loop goes on
\* with the next planned migration.
MigrateExecContinue(p) ==
    /\ call[p].pc = "loop"
    /\ call[p].i <= Len(call[p].planned)
    /\ \E e \in {Nil, ExecFailed} :
         LET c == [call[p] EXCEPT
                     !.execLog = Append(@, call[p].planned[call[p].i]),
                     !.fault = IF e /= Nil THEN e ELSE @,
                     !.driverCalls = @ \cup {"Exec"}]
         IN  MigrateGoes(p, IF e /= Nil THEN [c EXCEPT !.i = @ + 1]
                            ELSE [c EXCEPT !.pc = "insert"])
    /\ UNCHANGED table

\* dur, err := d.Exec(migration.Script) for the next planned migration; return
\* err if it failed.
MigrateExec(p) ==
    /\ call[p].pc = "loop"
    /\ call[p].i <= Len(call[p].planned)
    /\ \E e \in {Nil, ExecFailed} :
         LET c == [call[p] EXCEPT
                     !.execLog = Append(@, call[p].planned[call[p].i]),
                     !.fault = e,
                     !.driverCalls = @ \cup {"Exec"}]
         IN  MigrateGoes(p, IF e /= Nil THEN Returned(c, e)
                            ELSE [c EXCEPT !.pc = "insert"])
    /\ UNCHANGED table

\* A slip: the record is built and d.Insert is left out.
MigrateInsertSkipped(p) ==
    /\ call[p].pc = "insert"
    /\ MigrateGoes(p, [call[p] EXCEPT !.pc = "loop", !.i = @ + 1])
    /\ UNCHANGED table

\* err = d.Insert(MigrationRecord{...}) for the migration just executed; return
\* err if it failed, else go on with the next planned migration.
MigrateInsert(p) ==
    /\ call[p].pc = "insert"
    /\ LET record == RecordOf(call[p].planned[call[p].i])
           c == [call[p] EXCEPT !.insertLog = Append(@, record),
                                !.driverCalls = @ \cup {"Insert"}]
       IN  \E r \in InsertResults(table, record) :
             /\ table' = r.table
             /\ MigrateGoes(p, IF r.err /= Nil
                               THEN Returned([c EXCEPT !.fault = r.err], r.err)
                               ELSE [c EXCEPT !.pc = "loop", !.i = @ + 1])

\* The loop has run through planned.
MigrateLoopEnd(p) ==
    /\ call[p].pc = "loop"
    /\ call[p].i > Len(call[p].planned)
    /\ MigrateGoes(p, Passed(call[p], "loop"))
    /\ UNCHANGED table

\* A slip: Validate starts with d.Create(), as Migrate does.
ValidateCallCreating(p) ==
    /\ call[p].pc \in {"idle", "done"}
    /\ \E e \in {Nil, CreateFailed}, out \in Validate(call[p].migrations, table) :
         call' = [call EXCEPT ![p] =
                    [NoCall EXCEPT
                       !.pc = "done", !.op = "Validate",
                       !.migrations = IF e /= Nil THEN call[p].migrations
                                      ELSE out.migrations,
                       !.err = IF e /= Nil THEN e ELSE out.err,
                       !.fault = IF e /= Nil THEN e ELSE FaultOf(out.err),
                       !.driverCalls = IF e /= Nil THEN {"Create"}
                                       ELSE {"Create"} \cup out.driverCalls,
                       !.tableAtStart = table,
                       !.shuffled = ~IsAscending(call[p].migrations)]]
    /\ UNCHANGED <<mutex, table>>

\* Darwin.Validate: Validate(d.driver, d.migrations).  Validate takes no lock
\* and makes at most one driver call, d.All().
ValidateCall(p) ==
    /\ call[p].pc \in {"idle", "done"}
    /\ \E out \in Validate(call[p].migrations, table) :
         call' = [call EXCEPT ![p] =
                    [NoCall EXCEPT !.pc = "done", !.op = "Validate",
                                   !.migrations = out.migrations,
                                   !.err = out.err,
                                   !.fault = FaultOf(out.err),
                                   !.driverCalls = out.driverCalls,
                                   !.tableAtStart = table,
                                   !.shuffled = ~IsAscending(call[p].migrations)]]
    /\ UNCHANGED <<mutex, table>>

\* The call c got as far as sorting the caller's slice.
Validated(c) ==
    /\ c.pc = "done"
    /\ c.op = "Validate" \/ (c.op = "Migrate" /\ c.err /= CreateFailed)

\* The slices a caller passes to Info: the one of its Darwin value
\* (Darwin.Info), or that one with a migration of the universe U above all its
\* versions added at the end.
InfoArgs(s, U) ==
    {s} \cup IF Len(s) < MaxLen
             THEN { Append(s, m) :
                      m \in { x \in U : \A v \in VersionsOf(s) : x.Version > v } }
             ELSE {}

\* Info(d.driver, ms).  Info takes no lock, makes one driver call, d.All(),
\* and leaves the slice as it is.
InfoCall(p, ms) ==
    /\ call[p].pc \in {"idle", "done"}
    /\ \E out \in Info(ms, table) :
         call' = [call EXCEPT ![p] =
                    [NoCall EXCEPT
                       !.pc = IF out.panicked THEN "panic" ELSE "done",
                       !.op = "Info",
                       !.migrations = call[p].migrations,
                       !.arg = ms,
                       !.info = out.info,
                       !.err = out.err,
                       !.fault = FaultOf(out.err),
                       !.driverCalls = {"All"},
                       !.tableAtStart = table,
                       !.fresh = /\ call[p].pc = "done" /\ call[p].op = "Migrate"
                                 /\ call[p].err = Nil
                                 /\ call[p].tableAtStart = << >>
                                 /\ call[p].migrations /= << >>,
                       !.resorted = Validated(call[p]) /\ call[p].shuffled]]
    /\ UNCHANGED <<mutex, table>>

\* ------------------------------------------------------------ specifications

\* The steps of a Migrate call under way.
MigrateStep(p) ==
    \/ MigrateLock(p)
    \/ MigrateCreate(p)
    \/ MigrateValidate(p)
    \/ MigratePlan(p)
    \/ MigrateExec(p)
    \/ MigrateInsert(p)
    \/ MigrateLoopEnd(p)

\* One caller making calls one after the other, with any slices.
Next ==
    \/ \E ms \in NextSlices(call[1].migrations, MigrationUniverse) : New(1, ms)
    \/ MigrateCall(1)
    \/ MigrateStep(1)
    \/ ValidateCall(1)
    \/ \E ms \in InfoArgs(call[1].migrations, MigrationUniverse) : InfoCall(1, ms)

Spec == Init /\ [][Next]_vars

\* The slices of the concurrent callers: a valid one out of order, a shorter
\* one (which lacks version 1 once that is recorded) and one with a duplicate.
ConcurrentSlices ==
    { << Mig(1, "one", "a"), Mig(0, "zero", "a") >>,
      << Mig(0, "zero", "a") >>,
      << Mig(0, "zero", "a"), Mig(0, "zero", "a") >> }

\* Both callers, each with one Darwin value made from a slice of its choice,
\* making calls on it one after the other, the steps of the two callers' calls
\* interleaved in any way.
NextConcurrent ==
    \E p \in Callers :
        \/ call[p] = NoCall /\ \E ms \in ConcurrentSlices : New(p, ms)
        \/ call[p].migrations /= << >> /\ MigrateCall(p)
        \/ MigrateStep(p)
        \/ call[p].migrations /= << >> /\ ValidateCall(p)
        \/ call[p].migrations /= << >> /\ InfoCall(p, call[p].migrations)

SpecConcurrent == Init /\ [][NextConcurrent]_vars

\* The spellings of the version marker: the documented one, the ones with
\* one space left out, the one without any space, and another letter case.
VersionMarkers ==
    { "-- Version: ", "--Version: ", "-- Version:", "--version:", "--VERSION:" }

\* What follows the marker: float literals of one and more characters, and
\* something that is no number.
Payloads == { "1.5", "12", "7", "abc" }

\* The lines of the texts: version lines, a marker without a payload,
\* description lines, a line of script and an empty line.
TextLines ==
    { marker \o payload : marker \in VersionMarkers, payload \in Payloads }
        \cup { "--version:", "-- Description: first", "--description:first",
               "CREATE TABLE t (id INT);", "" }

RECURSIVE TextsOf(_)
\* The texts of at most n lines, each line ended by a newline.
TextsOf(n) ==
    IF n = 0 THEN { "" }
    ELSE TextsOf(n - 1) \cup { t \o line \o "\n" : t \in TextsOf(n - 1), line \in TextLines }

\* The texts callers parse: those of at most MaxLines lines, and the same
\* with the newline of the last line left out.
Texts ==
    TextsOf(MaxLines)
        \cup { t \o line : t \in TextsOf(MaxLines - 1), line \in TextLines }

\* ParseMigrations(text), called by p; what it returns is the slice p would
\* make its Darwin value from.
ParseCall(p, text) ==
    /\ call[p].pc \in {"idle", "done"}
    /\ call' = [call EXCEPT ![p] =
                  [NoCall EXCEPT
                     !.pc = IF ParseMigrations(text).outcome = "panic"
                            THEN "panic" ELSE "done",
                     !.op = "ParseMigrations",
                     !.text = text,
                     !.migrations = ParseMigrations(text).migrations]]
    /\ UNCHANGED <<mutex, table>>

\* One caller parsing a text.  ParseMigrations reads and writes nothing but
\* its argument and its result, so a second call would add nothing.
NextParse == call[1].pc = "idle" /\ \E text \in Texts : ParseCall(1, text)

SpecParse == Init /\ [][NextParse]_vars

\* ------------------------------------------------------------------ claims

\* The recorded version that is the high-water mark of a non-empty table.
HighWaterMark(recs) == Max(VersionsOf(recs))

\* The migrations of call c's slice above the high-water mark of the table
\* the call started on: all of them when that table was empty.
AboveMark(c) ==
    IF c.tableAtStart = << >> THEN Range(c.migrations)
    ELSE { m \in Range(c.migrations) : m.Version > HighWaterMark(c.tableAtStart) }

\* The migrations of call c's slice without a record when the call started.
Unrecorded(c) ==
    { m \in Range(c.migrations) : m.Version \notin VersionsOf(c.tableAtStart) }

\* Call c is a Migrate that has its plan.
HasPlan(c) ==
    \/ c.pc \in {"loop", "insert"}
    \/ c.pc = "done" /\ c.op = "Migrate" /\ c.err \in {Nil, ExecFailed, InsertFailed}

\* Call c is a Migrate that follows, on the same Darwin value, a Migrate that
\* returned success.
Repeated(c) == c.op = "Migrate" /\ c.again /\ c.prevErr = Nil

\* Call c is a Migrate that follows, on the same Darwin value, a Migrate that
\* returned the error of an Exec or of an Insert.
Resumed(c) == c.op = "Migrate" /\ c.again /\ c.prevErr \in {ExecFailed, InsertFailed}

\* C1 (idempotence of Migrate): a Migrate that directly follows a successful
\* Migrate with the same migration set never calls Exec, never calls Insert,
\* leaves the table as it was, and returns success unless a driver call of
\* its own (Create, All) fails.
C1_MigrateIdempotent ==
    \A p \in Callers :
        LET c == call[p]
        IN  Repeated(c) =>
              /\ c.execLog = << >>
              /\ c.insertLog = << >>
              /\ c.pc \in InMigrate \cup {"done"} => table = c.tableAtStart
              /\ c.pc = "done" /\ c.fault = Nil => c.err = Nil

\* A second Migrate has returned success after a first one that applied two
\* or more migrations.
C1_Witness ==
    \E p \in Callers :
        /\ Repeated(call[p])
        /\ call[p].pc = "done"
        /\ call[p].err = Nil
        /\ Len(call[p].migrations) >= 2
        /\ VersionsOf(table) = VersionsOf(call[p].migrations)

\* C2 (stop at first failure): when Exec fails for the N-th planned migration,
\* Migrate returns the driver's error; Exec was called for the first N planned
\* migrations and no other, Insert for the first N-1 and no other; the records
\* of the first N-1 are in the table and no record of the N-th is.
C2_StopAtFirstFailure ==
    \A p \in Callers :
        LET c == call[p]
            N == Len(c.execLog)
        IN  (c.pc = "done" /\ c.op = "Migrate" /\ c.fault = ExecFailed) =>
              /\ c.err = ExecFailed
              /\ N >= 1 /\ N <= Len(c.planned)
              /\ IsStrictlyAscending(c.planned)
              /\ c.execLog = SubSeq(c.planned, 1, N)
              /\ c.insertLog = [j \in 1..(N - 1) |-> RecordOf(c.planned[j])]
              /\ \A j \in 1..(N - 1) : RecordOf(c.planned[j]) \in Range(table)
              /\ c.planned[N].Version \notin VersionsOf(table)

\* Exec failed for the second of three planned migrations.
C2_Witness ==
    \E p \in Callers :
        /\ call[p].pc = "done"
        /\ call[p].err = ExecFailed
        /\ Len(call[p].planned) = 3
        /\ Len(call[p].execLog) = 2
        /\ Len(table) = 1

\* C3 as stated (idempotent resumption): a Migrate that follows one that
\* failed at migration N, and that returns success, has called Exec exactly
\* for the migrations without a record, in ascending order, N first.
C3_ResumesAllUnrecorded ==
    \A p \in Callers :
        LET c == call[p]
        IN  (Resumed(c) /\ c.pc = "done" /\ c.err = Nil) =>
              /\ Range(c.execLog) = Unrecorded(c)
              /\ IsStrictlyAscending(c.execLog)
              /\ c.execLog /= << >>
              /\ c.execLog[1].Version \in c.prevAt

\* C3 as amended: a Migrate that follows one that failed at migration N never
\* calls Exec for a migration that has a record and returns no structural
\* error; its plan is exactly the migrations above the highest recorded
\* version (all of them on an empty table), in ascending order, N first; it
\* calls Exec for them in that order up to its first driver failure, for all
\* of them when it returns success.  A migration without a record that is not
\* in the plan lies below the highest recorded version, and is not executed.
C3_ResumesAboveMark ==
    \A p \in Callers :
        LET c == call[p]
        IN  Resumed(c) =>
              /\ \A k \in 1..Len(c.execLog) :
                   c.execLog[k].Version \notin VersionsOf(c.tableAtStart)
              /\ c.pc = "done" => c.err.kind \notin StructuralKinds
              /\ c.pc = "done" /\ c.err = Nil => c.execLog = c.planned
              /\ HasPlan(c) =>
                   /\ Range(c.planned) = AboveMark(c)
                   /\ IsStrictlyAscending(c.planned)
                   /\ c.planned /= << >>
                   /\ c.planned[1].Version \in c.prevAt
                   /\ Len(c.execLog) <= Len(c.planned)
                   /\ c.execLog = SubSeq(c.planned, 1, Len(c.execLog))
                   /\ \A m \in Unrecorded(c) \ AboveMark(c) :
                        m.Version < HighWaterMark(c.tableAtStart)

\* A Migrate has returned success after one whose Insert failed, on a slice
\* with an unrecorded migration below the highest recorded version.
C3_Witness ==
    \E p \in Callers :
        /\ Resumed(call[p])
        /\ call[p].prevErr = InsertFailed
        /\ call[p].pc = "done"
        /\ call[p].err = Nil
        /\ Unrecorded(call[p]) /= AboveMark(call[p])

\* C5 (validation precedes execution): a Migrate that returns one of the four
\* structural errors has called neither Exec nor Insert, and the table is the
\* one the call started on.
C5_ValidationPrecedesExecution ==
    \A p \in Callers :
        LET c == call[p]
        IN  (c.pc = "done" /\ c.op = "Migrate" /\ c.err.kind \in StructuralKinds) =>
              /\ c.execLog = << >>
              /\ c.insertLog = << >>
              /\ table = c.tableAtStart

\* Migrate has returned InvalidChecksumError on a slice that also holds a
\* migration above every recorded version.
C5_Witness ==
    \E p \in Callers :
        /\ call[p].pc = "done"
        /\ call[p].op = "Migrate"
        /\ call[p].err.kind = "InvalidChecksumError"
        /\ \E m \in Range(call[p].migrations) :
             \A r \in Range(table) : m.Version > r.Version

\* A call that has returned.
Finished(c) == c.pc = "done" /\ c.op \in {"Migrate", "Validate"}

\* The negative versions of call c's slice.
Negative(c) == { v \in VersionsOf(c.migrations) : v < 0 }

\* The versions that two migrations of call c's slice share.
Duplicated(c) ==
    { c.migrations[i].Version : i \in { k \in 1..Len(c.migrations) :
        \E j \in 1..Len(c.migrations) :
            j /= k /\ c.migrations[j].Version = c.migrations[k].Version } }

\* The versions recorded when call c started that its slice does not hold.
Removed(c) == VersionsOf(c.tableAtStart) \ VersionsOf(c.migrations)

\* The versions recorded when call c started that its slice holds with a
\* script of another checksum.
Drifted(c) ==
    { r.Version : r \in { x \in Range(c.tableAtStart) :
        \E m \in Range(c.migrations) :
            m.Version = x.Version /\ Checksum(m) /= x.Checksum } }

\* C6 as stated (checksum sensitivity), for the calls whose driver calls
\* succeed and whose slice has no negative and no duplicated version: on a
\* slice that holds a recorded version v with a script of another checksum,
\* Validate or Migrate returns InvalidChecksumError with Version = v.
C6_DriftAlwaysReported ==
    \A p \in Callers :
        LET c == call[p]
        IN  (Finished(c) /\ c.fault = Nil /\ Negative(c) = {} /\ Duplicated(c) = {}) =>
              \A v \in Drifted(c) : c.err = Err("InvalidChecksumError", v)

\* C6 as amended: a Validate or Migrate call whose driver calls succeed, on a
\* slice without a negative or a duplicated version that holds every recorded
\* version, returns InvalidChecksumError for the lowest recorded version whose
\* script has another checksum: for v when v is the only one.
C6_LowestDriftReported ==
    \A p \in Callers :
        LET c == call[p]
        IN  ( /\ Finished(c)
              /\ c.fault = Nil
              /\ Negative(c) = {}
              /\ Duplicated(c) = {}
              /\ Removed(c) = {}
              /\ Drifted(c) /= {} ) =>
              c.err = Err("InvalidChecksumError", Min(Drifted(c)))

\* Migrate has returned InvalidChecksumError on a slice holding two recorded
\* versions with changed scripts.
C6_Witness ==
    \E p \in Callers :
        /\ call[p].pc = "done"
        /\ call[p].op = "Migrate"
        /\ call[p].err.kind = "InvalidChecksumError"
        /\ Cardinality(Drifted(call[p])) = 2

\* C7 as stated (removal sensitivity), for the calls whose driver calls
\* succeed and whose slice has no negative and no duplicated version: on a
\* slice that lacks a recorded version v, Validate or Migrate returns
\* RemovedMigrationError with Version = v.
C7_RemovalAlwaysReported ==
    \A p \in Callers :
        LET c == call[p]
        IN  (Finished(c) /\ c.fault = Nil /\ Negative(c) = {} /\ Duplicated(c) = {}) =>
              \A v \in Removed(c) : c.err = Err("RemovedMigrationError", v)

\* C7 as amended: a Validate or Migrate call whose driver calls succeed, on a
\* slice without a negative or a duplicated version that lacks a recorded
\* version, returns RemovedMigrationError for a recorded version the slice
\* lacks: for v when v is the only one, be v the highest recorded version or
\* not, and whether or not other recorded versions have changed scripts.
C7_SomeRemovalReported ==
    \A p \in Callers :
        LET c == call[p]
        IN  ( /\ Finished(c)
              /\ c.fault = Nil
              /\ Negative(c) = {}
              /\ Duplicated(c) = {}
              /\ Removed(c) /= {} ) =>
              /\ c.err.kind = "RemovedMigrationError"
              /\ c.err.Version \in Removed(c)

\* Validate has returned RemovedMigrationError for the highest of two recorded
\* versions, the only one the slice lacks.
C7_Witness ==
    \E p \in Callers :
        /\ call[p].pc = "done"
        /\ call[p].op = "Validate"
        /\ Len(call[p].tableAtStart) = 2
        /\ Removed(call[p]) = {HighWaterMark(call[p].tableAtStart)}
        /\ call[p].err = Err("RemovedMigrationError", HighWaterMark(call[p].tableAtStart))

\* C8 as stated (duplicate detection): Validate, on a slice in which two
\* migrations share version v, returns DuplicateMigrationVersionError with
\* Version = v.
C8_DuplicateAlwaysReported ==
    \A p \in Callers :
        LET c == call[p]
        IN  (c.pc = "done" /\ c.op = "Validate") =>
              \A v \in Duplicated(c) : c.err = Err("DuplicateMigrationVersionError", v)

\* C8 as amended: Validate, on a slice without a negative version in which
\* two migrations share a version, returns DuplicateMigrationVersionError for
\* the lowest shared version (for v when v is the only one), wherever the two
\* stand in the slice, whatever the table holds and whether or not the driver
\* works; so does a Migrate whose Create succeeded.
C8_LowestDuplicateReported ==
    \A p \in Callers :
        LET c == call[p]
        IN  ( /\ c.pc = "done"
              /\ c.op = "Validate" \/ (c.op = "Migrate" /\ c.fault = Nil)
              /\ Negative(c) = {}
              /\ Duplicated(c) /= {} ) =>
              c.err = Err("DuplicateMigrationVersionError", Min(Duplicated(c)))

\* Validate has returned DuplicateMigrationVersionError on a slice of three
\* that was not in ascending order, with records in the table.
C8_Witness ==
    \E p \in Callers :
        /\ call[p].pc = "done"
        /\ call[p].op = "Validate"
        /\ call[p].err.kind = "DuplicateMigrationVersionError"
        /\ call[p].shuffled
        /\ Len(call[p].migrations) = 3
        /\ table /= << >>

C10_PlanIsAboveMark ==
    \A p \in Callers :
        LET c == call[p]
        IN  (HasPlan(c) /\ c.tableAtStart /= << >>) =>
              /\ Range(c.planned) = AboveMark(c)
              /\ Cardinality(Range(c.planned)) = Len(c.planned)

\* Version v is a gap of the table: below its high-water mark, without a record.
IsGap(v, recs) ==
    recs /= << >> /\ v < HighWaterMark(recs) /\ v \notin VersionsOf(recs)

\* No step passes a gap to Exec, and no step gives a gap a record: the table
\* only grows, by a record above its high-water mark.
C10_GapStaysGap ==
    /\ \A p \in Callers :
         Len(call'[p].execLog) > Len(call[p].execLog) =>
            ~IsGap(call'[p].execLog[Len(call'[p].execLog)].Version, table)
    /\ table' /= table =>
         /\ Len(table') = Len(table) + 1
         /\ SubSeq(table', 1, Len(table)) = table
         /\ table /= << >> => table'[Len(table')].Version > HighWaterMark(table)

\* C10 (high-water-mark selection): on a non-empty table the plan is exactly
\* the supplied migrations whose version is above the highest recorded
\* version; so across any sequence of Migrate calls a migration below the
\* highest recorded version that has no record is never passed to Exec and
\* never gets a record.
C10_HighWaterMarkSelection == []C10_PlanIsAboveMark /\ [][C10_GapStaysGap]_vars

\* Migrate has returned success on a slice with an unrecorded migration below
\* the highest recorded version, having applied a migration above it.
C10_Witness ==
    \E p \in Callers :
        /\ call[p].pc = "done"
        /\ call[p].op = "Migrate"
        /\ call[p].err = Nil
        /\ call[p].execLog /= << >>
        /\ \E m \in Range(call[p].migrations) : IsGap(m.Version, table)

\* The records call c has put into the table.
OwnInserts(c) ==
    IF c.fault = InsertFailed THEN SubSeq(c.insertLog, 1, Len(c.insertLog) - 1)
    ELSE c.insertLog

\* C4 (mutual exclusion of Migrate): at most one Migrate call at a time is
\* between taking the mutex and returning; while it is, the table is the one
\* it found plus its own inserts; and the mutex is locked exactly while such a
\* call exists, so every return, with success or with an error, has released
\* it.
C4_MutualExclusion ==
    /\ Cardinality({ p \in Callers : call[p].pc \in InMigrate }) <= 1
    /\ mutex <=> \E p \in Callers : call[p].pc \in InMigrate
    /\ \A p \in Callers :
         call[p].pc \in InMigrate =>
            table = call[p].tableAtStart \o OwnInserts(call[p])

\* One caller's Migrate has returned the error of Exec, and the other
\* caller's Migrate, which waited for the mutex, is applying its plan.
C4_Witness ==
    \E p, q \in Callers :
        /\ p /= q
        /\ call[q].pc = "done"
        /\ call[q].op = "Migrate"
        /\ call[q].err = ExecFailed
        /\ call[p].pc = "insert"
        /\ call[p].tableAtStart = table

\* Call c is an Info whose d.All() succeeded, returned or not.
InfoRan(c) == c.op = "Info" /\ c.pc \in {"done", "panic"} /\ c.fault = Nil

\* C11 (Info on empty history), as stated: when d.All() succeeds and returns
\* no records, Info returns, without an error and without a panic, one
\* MigrationInfo per migration it was given, each with status Pending.
C11_InfoOnEmptyHistory ==
    \A p \in Callers :
        LET c == call[p]
        IN  (InfoRan(c) /\ c.tableAtStart = << >>) =>
              /\ c.pc = "done"
              /\ c.err = Nil
              /\ Len(c.info) = Len(c.arg)
              /\ \A k \in 1..Len(c.info) :
                   c.info[k] = MigrationInfo("Pending", c.arg[k])

\* What the code does on no records: Info panics in getStatus when it was
\* given a migration, and returns no entries when it was given none.
C11_PanicsOnEmptyHistory ==
    \A p \in Callers :
        LET c == call[p]
        IN  (InfoRan(c) /\ c.tableAtStart = << >>) =>
              /\ c.pc = "panic" <=> c.arg /= << >>
              /\ c.info = << >>
              /\ c.err = Nil

\* Info has panicked on an empty table, called with two migrations.
C11_Witness ==
    \E p \in Callers :
        /\ call[p].op = "Info"
        /\ call[p].pc = "panic"
        /\ table = << >>
        /\ Len(call[p].arg) = 2

\* The status of version v against the records recs, by the rule of the
\* contract.
StatusOf(v, recs) ==
    IF v > HighWaterMark(recs) THEN "Pending"
    ELSE IF v \in VersionsOf(recs) THEN "Applied"
    ELSE "Ignored"

\* C12 (Info classification): on a non-empty table, when d.All() succeeds,
\* Info returns one entry per migration it was given, in the given order:
\* Pending for a version above the highest recorded version, Applied for a
\* recorded version, Ignored otherwise, never Error, in whatever order the
\* driver returned the records.
C12_InfoClassification ==
    \A p \in Callers :
        LET c == call[p]
        IN  (InfoRan(c) /\ c.tableAtStart /= << >>) =>
              /\ c.pc = "done"
              /\ c.err = Nil
              /\ Len(c.info) = Len(c.arg)
              /\ \A k \in 1..Len(c.info) :
                   /\ c.info[k].Migration = c.arg[k]
                   /\ c.info[k].Status = StatusOf(c.arg[k].Version, c.tableAtStart)
                   /\ c.info[k].Status /= "Error"
                   /\ c.info[k].Error = Nil

\* Info has returned Pending, Applied and Ignored, in this order, for three
\* migrations given in descending version order.
C12_Witness ==
    \E p \in Callers :
        /\ call[p].op = "Info"
        /\ call[p].pc = "done"
        /\ Len(call[p].info) = 3
        /\ call[p].info[1].Status = "Pending"
        /\ call[p].info[2].Status = "Applied"
        /\ call[p].info[3].Status = "Ignored"
        /\ call[p].arg[1].Version > call[p].arg[2].Version
        /\ call[p].arg[2].Version > call[p].arg[3].Version

\* C13 (end to end): a Migrate that starts on an empty table with a valid,
\* non-empty slice and meets no driver failure returns success, having called
\* Exec for every migration of the slice in ascending version order and
\* inserted one record for each; an Info that follows it on the same slice
\* reports every migration Applied, and an Info on that slice with a migration
\* above all its versions added reports that one Pending and the rest Applied.
C13_EndToEnd ==
    \A p \in Callers :
        LET c == call[p]
        IN  /\ ( /\ c.op = "Migrate" /\ c.pc = "done" /\ c.fault = Nil
                 /\ c.tableAtStart = << >>
                 /\ c.migrations /= << >>
                 /\ Negative(c) = {} /\ Duplicated(c) = {} ) =>
                  /\ c.err = Nil
                  /\ c.execLog = c.migrations
                  /\ IsStrictlyAscending(c.execLog)
                  /\ c.insertLog = [k \in 1..Len(c.execLog) |-> RecordOf(c.execLog[k])]
                  /\ table = c.insertLog
            /\ (InfoRan(c) /\ c.fresh) =>
                  /\ c.pc = "done"
                  /\ Len(c.info) = Len(c.arg)
                  /\ \A k \in 1..Len(c.migrations) : c.info[k].Status = "Applied"
                  /\ \A k \in (Len(c.migrations) + 1)..Len(c.arg) :
                       c.info[k].Status = "Pending"

\* After a Migrate that applied two migrations given in descending order to an
\* empty table, Info has reported on the two and a third, higher one.
C13_Witness ==
    \E p \in Callers :
        /\ call[p].op = "Info"
        /\ call[p].pc = "done"
        /\ call[p].fresh
        /\ call[p].resorted
        /\ Len(call[p].migrations) = 2
        /\ Len(call[p].info) = 3
        /\ call[p].info[3].Status = "Pending"

\* A step in which caller p makes a Validate or an Info call leaves the table
\* and the mutex alone, and the call has called no driver operation but All.
C14_ReadOnlyStep ==
    \A p \in Callers :
        (call'[p] /= call[p] /\ call'[p].op \in {"Validate", "Info"}) =>
            /\ table' = table
            /\ mutex' = mutex
            /\ call'[p].driverCalls \subseteq {"All"}
            /\ call'[p].execLog = << >>
            /\ call'[p].insertLog = << >>

\* C14 (Validate and Info are read-only): no Validate and no Info call, be
\* its result success, an error or a panic, and be a Migrate under way or
\* not, calls d.Create, d.Exec or d.Insert or changes the record history.
C14_ReadOnly == [][C14_ReadOnlyStep]_vars

\* Info has returned, or Validate has returned an error, on the table that
\* holds the first insert of a Migrate that is still before its second.
C14_Witness ==
    \E p, q \in Callers :
        /\ p /= q
        /\ call[q].pc = "insert"
        /\ Len(call[q].insertLog) = 1
        /\ call[p].pc = "done"
        /\ call[p].op \in {"Validate", "Info"}
        /\ call[p].tableAtStart = table
        /\ call[p].op = "Validate" => call[p].err /= Nil
        /\ table /= call[q].tableAtStart

\* C15 (priority of Validate's checks): a negative version gives
\* IllegalMigrationVersionError even next to duplicates; duplicates without a
\* negative version give DuplicateMigrationVersionError; in both cases d.All()
\* is not called.  Otherwise d.All() is called and its error returned as it
\* is; then a recorded version the slice lacks gives RemovedMigrationError
\* even next to a changed script, and InvalidChecksumError is returned only
\* when the slice lacks no recorded version; else Validate returns nil.
C15_ValidatePriority ==
    \A p \in Callers :
        LET c == call[p]
        IN  (c.pc = "done" /\ c.op = "Validate") =>
              /\ Negative(c) /= {} =>
                    /\ c.err.kind = "IllegalMigrationVersionError"
                    /\ c.err.Version \in Negative(c)
                    /\ c.driverCalls = {}
              /\ (Negative(c) = {} /\ Duplicated(c) /= {}) =>
                    /\ c.err.kind = "DuplicateMigrationVersionError"
                    /\ c.err.Version \in Duplicated(c)
                    /\ c.driverCalls = {}
              /\ (Negative(c) = {} /\ Duplicated(c) = {}) =>
                    /\ c.driverCalls = {"All"}
                    /\ c.fault /= Nil => c.err = AllFailed
                    /\ (c.fault = Nil /\ Removed(c) /= {}) =>
                          /\ c.err.kind = "RemovedMigrationError"
                          /\ c.err.Version \in Removed(c)
                    /\ (c.fault = Nil /\ Removed(c) = {} /\ Drifted(c) /= {}) =>
                          /\ c.err.kind = "InvalidChecksumError"
                          /\ c.err.Version \in Drifted(c)
                    /\ (c.fault = Nil /\ Removed(c) = {} /\ Drifted(c) = {}) =>
                          c.err = Nil
              /\ c.err.kind = "InvalidChecksumError" => Removed(c) = {}

\* Validate has returned IllegalMigrationVersionError, without a call of
\* d.All(), on a slice that has a negative version twice, lacks a recorded
\* version and holds another with a changed script.
C15_Witness ==
    \E p \in Callers :
        /\ call[p].pc = "done"
        /\ call[p].op = "Validate"
        /\ call[p].err.kind = "IllegalMigrationVersionError"
        /\ Negative(call[p]) \cap Duplicated(call[p]) /= {}
        /\ Removed(call[p]) /= {}
        /\ Drifted(call[p]) /= {}

\* s is a prefix of t.
IsPrefix(s, t) == Len(s) <= Len(t) /\ s = SubSeq(t, 1, Len(s))

\* The slice of call c is valid: not empty, no negative and no duplicated
\* version.
ValidSlice(c) == c.migrations /= << >> /\ Negative(c) = {} /\ Duplicated(c) = {}

\* Callers p and q are in Migrate calls on the same valid migration set with
\* no driver failure so far; p's call found the table empty, and q's call,
\* if it has got past mutex.Lock(), a table holding only inserts of p's call.
MigratePair(p, q) ==
    /\ p /= q
    /\ call[p].op = "Migrate" /\ call[q].op = "Migrate"
    /\ ValidSlice(call[p]) /\ ValidSlice(call[q])
    /\ Range(call[p].migrations) = Range(call[q].migrations)
    /\ call[p].fault = Nil /\ call[q].fault = Nil
    /\ call[p].pc /= "lock"
    /\ call[p].tableAtStart = << >>
    /\ call[q].pc /= "lock" => IsPrefix(call[q].tableAtStart, OwnInserts(call[p]))

\* C16 (exactly-once application under concurrency): when two Migrate calls
\* on the same valid set run at the same time from an empty table with a
\* driver that does not fail, no migration is passed to Exec twice and no
\* version to Insert twice, at any moment; and when both calls have returned,
\* both returned success, every migration was passed to Exec once in total,
\* and the table holds one record per version.
C16_ExactlyOnce ==
    \A p, q \in Callers :
        MigratePair(p, q) =>
            LET execs == call[p].execLog \o call[q].execLog
                inserts == call[p].insertLog \o call[q].insertLog
            IN  /\ Cardinality(Range(execs)) = Len(execs)
                /\ Cardinality(VersionsOf(inserts)) = Len(inserts)
                /\ (call[p].pc = "done" /\ call[q].pc = "done") =>
                      /\ call[p].err = Nil /\ call[q].err = Nil
                      /\ Range(execs) = Range(call[p].migrations)
                      /\ inserts = [k \in 1..Len(execs) |-> RecordOf(execs[k])]
                      /\ table = inserts

\* One Migrate, on a slice of two, is between its first Insert and its second
\* Exec while the other caller's Migrate on the same set waits for the mutex.
C16_Witness ==
    \E p, q \in Callers :
        /\ MigratePair(p, q)
        /\ call[q].pc = "lock"
        /\ call[p].pc = "loop"
        /\ Len(call[p].insertLog) = 1
        /\ Len(call[p].planned) = 2

\* Line v is a version line by the parser's test.
IsVersionLine(v) == HasPrefix(Normalized(v), "--version:")

\* What follows the marker in the normalized form of version line v.
LiteralOf(v) == TrimSpace(SliceFrom(Normalized(v), Len("--version:")))

\* The version lines of text s, in their order.
VersionLines(s) == SelectSeq(ScanLines(s), IsVersionLine)

\* C17 (version-marker parsing), as stated: on a text in which every version
\* line has, in its normalized form, a valid float literal after
\* `--version:`, ParseMigrations neither panics nor gives up, and returns one
\* migration per version line, whose Version is the float of that line, for
\* every spelling of the marker.
C17_VersionParsed ==
    \A p \in Callers :
        LET c == call[p]
            vl == VersionLines(c.text)
        IN  ( /\ c.op = "ParseMigrations"
              /\ \A k \in 1..Len(vl) : ParseFloat(LiteralOf(vl[k])).ok ) =>
              /\ c.pc = "done"
              /\ Len(c.migrations) = Len(vl)
              /\ \A k \in 1..Len(vl) :
                   c.migrations[k].Version = ParseFloat(LiteralOf(vl[k])).value

\* What the code does: the payload is what follows the 11th byte of the
\* line.  A version line in which the marker and the spaces after it take 11
\* bytes or more is parsed as stated.
C17_ParsedFromByte11 ==
    \A p \in Callers :
        LET c == call[p]
            vl == VersionLines(c.text)
        IN  ( /\ c.op = "ParseMigrations"
              /\ \A k \in 1..Len(vl) :
                   /\ ParseFloat(LiteralOf(vl[k])).ok
                   /\ Len(vl[k]) >= 11
                   /\ TrimSpace(SliceFrom(vl[k], 11)) = LiteralOf(vl[k]) ) =>
              /\ c.pc = "done"
              /\ Len(c.migrations) = Len(vl)
              /\ \A k \in 1..Len(vl) :
                   c.migrations[k].Version = ParseFloat(LiteralOf(vl[k])).value

\* ParseMigrations has returned version 2 for the line `--version:12`.
C17_Witness ==
    \E p \in Callers :
        /\ call[p].op = "ParseMigrations"
        /\ call[p].pc = "done"
        /\ VersionLines(call[p].text) = << "--version:12" >>
        /\ Len(call[p].migrations) = 1
        /\ call[p].migrations[1].Version = Decimal(2, 0)

\* The callers that have a Darwin value.
Users == { p \in Callers : call[p] /= NoCall }

\* Every call so far was made with one migration set, of unique non-negative
\* versions: in the concurrent specification a caller keeps its slice, and
\* Validate and Migrate only reorder it.
FixedSet ==
    /\ Users /= {}
    /\ \A p \in Users : ValidSlice(call[p])
    /\ \A p, q \in Users : Range(call[p].migrations) = Range(call[q].migrations)

\* The migrations of the fixed set in ascending version order.
FixedSorted ==
    CHOOSE t \in Perms(call[CHOOSE p \in Users : TRUE].migrations) : IsStrictlyAscending(t)

\* C18 (prefix invariant of history): with a fixed migration set of unique
\* non-negative versions and a driver whose operations may fail at any call,
\* after any Migrate calls of the two callers, interleaved in any way, the
\* table holds the records of a prefix of the set sorted ascending by
\* version, in that order: versions distinct, inserted in strictly increasing
\* order, no gap below the highest recorded version.
C18_HistoryIsPrefix ==
    FixedSet =>
        /\ Len(table) <= Len(FixedSorted)
        /\ table = [k \in 1..Len(table) |-> RecordOf(FixedSorted[k])]

\* The table holds the record of the lower of two versions only, after calls
\* of both callers one of which ended with a failed Insert, on slices given in
\* descending order.
C18_Witness ==
    /\ FixedSet
    /\ Users = Callers
    /\ Len(FixedSorted) = 2
    /\ Len(table) = 1
    /\ \E p, q \in Callers :
         /\ p /= q
         /\ call[p].op = "Migrate" /\ call[p].pc = "done" /\ call[p].err = InsertFailed
         /\ call[p].shuffled
         /\ call[q].op = "Migrate" /\ call[q].pc = "loop"

\* C19 (history stays valid): with a fixed migration set of unique
\* non-negative versions, in every state reached by Migrate calls that
\* succeed or fail at any driver call, every record has the version of a
\* migration of the set and the checksum of its script; so no Validate on the
\* set, also one that runs between an Exec and its Insert of the other
\* caller's Migrate, and no Migrate returns a structural error.
C19_HistoryStaysValid ==
    FixedSet =>
        /\ \A r \in Range(table) :
             \E m \in Range(FixedSorted) :
                 m.Version = r.Version /\ Checksum(m) = r.Checksum
        /\ \A p \in Callers :
             (call[p].pc = "done" /\ call[p].op \in {"Validate", "Migrate"}) =>
                 call[p].err.kind \notin StructuralKinds

\* Validate has returned nil on the table as it is between the second Exec
\* and the second Insert of the other caller's Migrate.
C19_Witness ==
    /\ FixedSet
    /\ \E p, q \in Callers :
         /\ p /= q
         /\ call[q].pc = "insert"
         /\ Len(call[q].execLog) = 2
         /\ Len(table) = 1
         /\ call[p].op = "Validate" /\ call[p].pc = "done" /\ call[p].err = Nil
         /\ call[p].tableAtStart = table

\* A step of a Validate or Migrate call of caller p leaves the migrations of
\* p's slice as they are, up to their order.
SameMigrations(p) == call'[p].migrations \in Perms(call[p].migrations)

\* A step of a Validate or Migrate call changes nothing of the caller's slice
\* but the order, and a step in which the call returns leaves the slice in
\* ascending version order.
C20_SortedAtEveryReturnStep ==
    \A p \in Callers :
        (call'[p] /= call[p] /\ call'[p].op \in {"Validate", "Migrate"}) =>
            /\ SameMigrations(p)
            /\ call'[p].pc = "done" => IsAscending(call'[p].migrations)

\* C20 as stated (effect on the caller's slice): a Validate or Migrate call
\* changes nothing of the caller's slice but the order, and when it has
\* returned, with success or with any error, the slice is in ascending
\* version order.
C20_SortedAtEveryReturn == [][C20_SortedAtEveryReturnStep]_vars

\* A Validate or Migrate call changes nothing of the caller's slice but the
\* order, and that only in Validate; when the call has returned from or after
\* Validate, the slice is in ascending version order.
C20_SortedByValidateStep ==
    \A p \in Callers :
        (call'[p] /= call[p] /\ call'[p].op \in {"Validate", "Migrate"}) =>
            /\ SameMigrations(p)
            /\ Validated(call'[p]) => IsAscending(call'[p].migrations)
            /\ call'[p].migrations /= call[p].migrations =>
                  call'[p].op = "Validate" \/ call[p].pc = "validate"

\* An Info on the slice that follows a call which reordered it reports the
\* migrations in the slice's order, which is ascending.
C20_InfoAscending ==
    \A p \in Callers :
        LET c == call[p]
        IN  ( /\ c.op = "Info" /\ c.pc = "done" /\ c.err = Nil
              /\ c.resorted /\ c.arg = c.migrations ) =>
              /\ c.migrations = [k \in 1..Len(c.info) |-> c.info[k].Migration]
              /\ IsAscending(c.migrations)

\* C20 as amended: Validate reorders the caller's slice in place and changes
\* nothing else; after Validate has returned, with success or with any error,
\* and after a Migrate that got to its Validate has returned, the slice holds
\* the same migrations in ascending version order; a Migrate that returns the
\* error of d.Create() leaves the slice in the caller's order.  An Info that
\* follows on a reordered slice reports in ascending order.
C20_SortedByValidate == []C20_InfoAscending /\ [][C20_SortedByValidateStep]_vars

\* Info has reported three migrations in ascending order on a slice that the
\* call before it found in another order.
C20_Witness ==
    \E p \in Callers :
        /\ call[p].op = "Info"
        /\ call[p].pc = "done"
        /\ call[p].resorted
        /\ call[p].arg = call[p].migrations
        /\ Len(call[p].info) = 3

====
